---- MODULE Spec2Model ----
(***************************************************************************)
(* Model of the job-application backend (server.js): the submission        *)
(* handler POST /api/submit-application, the mongoose schema it persists   *)
(* through, and the notification mail it sends.                            *)
(*                                                                         *)
(* Strings whose characters matter (the values of the payload's fields)    *)
(* are sequences of one-character strings; field names and message texts  *)
(* are TLA+ strings.  A JSON object is a function from the set of its      *)
(* keys: an absent field is a key that is not in the DOMAIN.               *)
(***************************************************************************)
EXTENDS Integers, Sequences, FiniteSets, TLC

\* ---------------------------------------------------------------- bounds
NumRequests == 2     \* requests that may be in flight together
MaxEmailLen == 5     \* longest email of the exhaustive input specification
MaxNameLen  == 3     \* longest name of the exhaustive input specification

Requests == 1..NumRequests

\* ---------------------------------------------------------- characters
Whitespace    == {" ", "\t"}
EmailAlphabet == {"a", "@", ".", " "}
NameAlphabet  == {"J", " "}

IsSpace(c) == c \in Whitespace

RECURSIVE StringsUpTo(_, _)
StringsUpTo(alphabet, n) ==
  IF n = 0 THEN {<<>>}
  ELSE LET shorter == StringsUpTo(alphabet, n - 1)
       IN  shorter \cup {Append(s, c) : s \in shorter, c \in alphabet}

\* ------------------------------------------------------ the schema (36-67)
RequiredFields == <<"email", "firstName", "lastName", "country">>
RequiredSet    == {RequiredFields[i] : i \in 1..Len(RequiredFields)}
FilterPaths    == {"country", "city", "sector", "employmentType"}

RequiredMessage(path) ==
  CASE path = "email"     -> "email: Email is required"
    [] path = "firstName" -> "firstName: First name is required"
    [] path = "lastName"  -> "lastName: Last name is required"
    [] path = "country"   -> "country: Country is required"

\* /\S+@\S+\.\S+/ without the dot and what follows it
EmailMatchNoDot(s) ==
  \E i \in 2..Len(s) :
     /\ s[i] = "@"
     /\ ~IsSpace(s[i-1])
     /\ i + 1 <= Len(s)
     /\ ~IsSpace(s[i+1])

\* RegExp.test of /\S+@\S+\.\S+/ : unanchored, so a match may start and end
\* anywhere.  \S+ before the '@' needs one non-space character right before
\* it; \S+\.\S+ after it needs a non-empty run of non-space characters, a
\* dot, and one non-space character.
EmailMatch(s) ==
  \E i \in 2..Len(s) :
     /\ s[i] = "@"
     /\ ~IsSpace(s[i-1])
     /\ \E j \in (i+2)..(Len(s)-1) :
           /\ s[j] = "."
           /\ \A k \in (i+1)..(j-1) : ~IsSpace(s[k])
           /\ ~IsSpace(s[j+1])

\* a trim that only strips leading whitespace
RECURSIVE TrimStartOnly(_)
TrimStartOnly(s) ==
  IF s # <<>> /\ IsSpace(Head(s)) THEN TrimStartOnly(Tail(s)) ELSE s

\* String.prototype.trim, the setter of `trim: true`
RECURSIVE Trim(_)
Trim(s) ==
  IF s = <<>> THEN s
  ELSE IF IsSpace(Head(s)) THEN Trim(Tail(s))
  ELSE IF IsSpace(s[Len(s)]) THEN Trim(SubSeq(s, 1, Len(s) - 1))
  ELSE s

Restrict(f, K) == [k \in (DOMAIN f) \cap K |-> f[k]]

\* new Application({...}): setters run and, the schema being strict, the
\* sub-fields of searchFilters that the schema does not declare are dropped
\* (createdAt, which no property here reads, is left out; _id is added when
\* the document is inserted)
Cast(email, firstName, lastName, country, searchFilters) ==
  [ email         |-> email,
    firstName     |-> Trim(firstName),
    lastName      |-> Trim(lastName),
    country       |-> country,
    searchFilters |-> Restrict(searchFilters, FilterPaths) ]

\* the validators of one path: `required` (a non-empty string) and `match`
PathInvalid(doc, path) ==
  \/ doc[path] = <<>>
  \/ path = "email" /\ ~EmailMatch(doc.email)

PathMessage(doc, path) ==
  IF doc[path] = <<>> THEN RequiredMessage(path)
  ELSE "email: Invalid email format"

RECURSIVE PathErrors(_, _)
PathErrors(doc, paths) ==
  IF paths = <<>> THEN <<>>
  ELSE (IF PathInvalid(doc, Head(paths))
          THEN <<PathMessage(doc, Head(paths))>> ELSE <<>>)
       \o PathErrors(doc, Tail(paths))

\* document.validate(): the messages of the paths that fail, in schema order
ValidationErrors(doc) == PathErrors(doc, RequiredFields)

ValidationError(doc) ==
  [ name    |-> "ValidationError",
    message |-> <<"Application validation failed">> \o ValidationErrors(doc) ]

\* what the store can fail with when the document is valid
StoreErrors ==
  { [name |-> "MongoNetworkError", message |-> <<"connect ECONNREFUSED">>],
    [name |-> "Error",             message |-> <<>>] }

\* what transporter.sendMail can reject with
MailErrors == { [name |-> "Error", message |-> <<"Invalid login">>] }

\* ------------------------------------------------------ the handler (87-146)
Present(b, k) == k \in DOMAIN b /\ b[k] # <<>>

\* `if (!x) missingFields.push(...)` stopping at the first missing field
RECURSIVE FirstMissingOf(_, _)
FirstMissingOf(b, fields) ==
  IF fields = <<>> THEN <<>>
  ELSE IF ~Present(b, Head(fields)) THEN <<Head(fields)>>
  ELSE FirstMissingOf(b, Tail(fields))

RECURSIVE MissingOf(_, _)
MissingOf(b, fields) ==
  IF fields = <<>> THEN <<>>
  ELSE (IF ~Present(b, Head(fields)) THEN <<Head(fields)>> ELSE <<>>)
       \o MissingOf(b, Tail(fields))

FirstMissing(b) == FirstMissingOf(b, RequiredFields)

\* lines 92-96: the names of the required fields that are falsy, in order
MissingFields(b) == MissingOf(b, RequiredFields)

\* Array.prototype.join
RECURSIVE Join(_, _)
Join(parts, sep) ==
  IF parts = <<>> THEN <<>>
  ELSE IF Len(parts) = 1 THEN parts
  ELSE <<Head(parts), sep>> \o Join(Tail(parts), sep)

\* `const { email, firstName, lastName, country, ...searchFilters } = req.body`
SearchFilters(b) == Restrict(b, (DOMAIN b) \ RequiredSet)

MissingResponse(b) ==
  [ status  |-> 400,
    success |-> FALSE,
    error   |-> <<"Missing required fields: ">> \o Join(MissingFields(b), ", ") ]

\* lines 138-145
ErrorResponse(error) ==
  [ status  |-> IF error.name = "ValidationError" THEN 400 ELSE 500,
    success |-> FALSE,
    error   |-> IF error.message # <<>> THEN error.message
                ELSE <<"Internal server error">> ]

\* lines 132-136
CreatedResponse(doc) ==
  [ status  |-> 201,
    success |-> TRUE,
    message |-> <<"Application submitted successfully">>,
    data    |-> doc ]

\* lines 115-127: what the notification mail is made of
Mail(b) ==
  [ subject       |-> "New Application Received",
    firstName     |-> b.firstName,
    lastName      |-> b.lastName,
    email         |-> b.email,
    country       |-> b.country,
    searchFilters |-> SearchFilters(b) ]

\* the document Application.create is called with, after casting
DocOf(b) ==
  Cast(b.email, b.firstName, b.lastName, b.country, SearchFilters(b))

\* ------------------------------------------------------------- payloads
Str_ab_c   == <<"a", "@", "b", ".", "c">>
Base ==
  [ email     |-> Str_ab_c,
    firstName |-> <<"J">>,
    lastName  |-> <<"D">>,
    country   |-> <<"U", "S">> ]

With(b, k, v) == [x \in (DOMAIN b) \cup {k} |-> IF x = k THEN v ELSE b[x]]

\* every way of leaving required fields out, and each field sent empty
PresencePayloads ==
  { Restrict(Base, K) : K \in SUBSET RequiredSet }
    \cup { With(Base, k, <<>>) : k \in RequiredSet }

SampleEmails ==
  { <<"a", "b">>,                     \* no '@'
    <<"a", "@", "b">>,                \* no dot after the '@'
    <<"a", ".", "b", "@", "c">>,      \* the only dot is before the '@'
    <<"@", "b", ".", "c">> }          \* nothing before the '@'

SampleNames == { <<" ", "J", " ">>, <<" ">>, <<" ", " ">> }

ExtraKeys == {"city", "foo"}
ExtraValue(k) == IF k = "city" THEN <<"N">> ELSE <<"x">>

ExtrasPayloads ==
  { [k \in RequiredSet \cup K |-> IF k \in RequiredSet THEN Base[k]
                                    ELSE ExtraValue(k)] :
      K \in SUBSET ExtraKeys }

Payloads ==
  PresencePayloads
    \cup { With(Base, "email", e) : e \in SampleEmails }
    \cup { With(Base, "firstName", n) : n \in SampleNames }
    \cup { With(Base, "lastName", <<" ">>) }
    \cup ExtrasPayloads

\* one field at a time ranging over every string up to a length
FieldPayloads ==
  { With(Base, "email", e) : e \in StringsUpTo(EmailAlphabet, MaxEmailLen) }
    \cup { With(Base, "firstName", n) : n \in StringsUpTo(NameAlphabet, MaxNameLen) }
    \cup { With(Base, "lastName", n) : n \in StringsUpTo(NameAlphabet, MaxNameLen) }

\* ---------------------------------------------------------------- state
VARIABLES
  inputs,          \* which payloads the clients send: "samples" or "strings"
  pc,              \* pc[r]: where the handler of request r is
  body,            \* body[r]: req.body
  newApplication,  \* newApplication[r]: the documents create returned to r
  res,             \* res[r]: the responses sent for request r
  sent,            \* sent[r]: the mails handed to transporter.sendMail by r
  logged,          \* logged[r]: the errors written with console.error by r
  store,           \* the collection of Application records
  nextId           \* the next _id the store generates

vars == <<inputs, pc, body, newApplication, res, sent, logged, store, nextId>>

InitState ==
  /\ pc = [r \in Requests |-> "idle"]
  /\ body = [r \in Requests |-> <<>>]
  /\ newApplication = [r \in Requests |-> <<>>]
  /\ res = [r \in Requests |-> <<>>]
  /\ sent = [r \in Requests |-> <<>>]
  /\ logged = [r \in Requests |-> <<>>]
  /\ store = {}
  /\ nextId = 1

Init == inputs = "samples" /\ InitState

\* a single request, its fields ranging over every short string
InitInputs == inputs = "strings" /\ InitState

\* the payloads the client may send as request r
Pool(r) ==
  IF inputs = "samples" THEN Payloads
  ELSE IF r = 1 THEN FieldPayloads ELSE {}

Respond(r, response) ==
  /\ res' = [res EXCEPT ![r] = Append(@, response)]
  /\ pc' = [pc EXCEPT ![r] = "done"]

\* lines 89-103 without the `return`: the 400 is sent and the handler goes on
ReceiveNoReturn(r) ==
  /\ pc[r] = "idle"
  /\ \E b \in Pool(r) :
       /\ body' = [body EXCEPT ![r] = b]
       /\ res' = [res EXCEPT ![r] =
                    IF MissingFields(b) # <<>> THEN Append(@, MissingResponse(b))
                    ELSE @]
       /\ pc' = [pc EXCEPT ![r] =
                    IF RequiredSet \subseteq DOMAIN b THEN "creating" ELSE "done"]
  /\ UNCHANGED <<inputs, newApplication, sent, logged, store, nextId>>

\* lines 87-105: the request arrives; the handler runs up to its first await
Receive(r) ==
  /\ pc[r] = "idle"
  /\ \E b \in Pool(r) :
       /\ body' = [body EXCEPT ![r] = b]
       /\ IF MissingFields(b) # <<>>
            THEN Respond(r, MissingResponse(b))
            ELSE /\ pc' = [pc EXCEPT ![r] = "creating"]
                 /\ UNCHANGED res
  /\ UNCHANGED <<inputs, newApplication, sent, logged, store, nextId>>

\* Application.create rejects with a ValidationError; lines 138-145
CreateInvalid(r) ==
  /\ pc[r] = "creating"
  /\ ValidationErrors(DocOf(body[r])) # <<>>
  /\ LET error == ValidationError(DocOf(body[r]))
     IN  /\ logged' = [logged EXCEPT ![r] = Append(@, error)]
         /\ Respond(r, ErrorResponse(error))
  /\ UNCHANGED <<inputs, body, newApplication, sent, store, nextId>>

\* Application.create rejects with another error; lines 138-145
CreateFail(r) ==
  /\ pc[r] = "creating"
  /\ ValidationErrors(DocOf(body[r])) = <<>>
  /\ \E error \in StoreErrors :
       /\ logged' = [logged EXCEPT ![r] = Append(@, error)]
       /\ Respond(r, ErrorResponse(error))
  /\ UNCHANGED <<inputs, body, newApplication, sent, store, nextId>>

\* a create that returns the record of an earlier identical submission
CreateOkDedup(r) ==
  /\ pc[r] = "creating"
  /\ ValidationErrors(DocOf(body[r])) = <<>>
  /\ LET same == {rec \in store : Restrict(rec, DOMAIN DocOf(body[r])) = DocOf(body[r])}
         doc  == IF same # {} THEN CHOOSE rec \in same : TRUE
                 ELSE With(DocOf(body[r]), "_id", nextId)
     IN  /\ store' = store \cup {doc}
         /\ nextId' = IF same # {} THEN nextId ELSE nextId + 1
         /\ newApplication' = [newApplication EXCEPT ![r] = Append(@, doc)]
  /\ sent' = [sent EXCEPT ![r] = Append(@, Mail(body[r]))]
  /\ pc' = [pc EXCEPT ![r] = "mailing"]
  /\ UNCHANGED <<inputs, body, res, logged>>

\* lines 105-127: Application.create resolves with the inserted document and
\* the handler calls transporter.sendMail
CreateOk(r) ==
  /\ pc[r] = "creating"
  /\ ValidationErrors(DocOf(body[r])) = <<>>
  /\ LET doc == With(DocOf(body[r]), "_id", nextId)
     IN  /\ store' = store \cup {doc}
         /\ nextId' = nextId + 1
         /\ newApplication' = [newApplication EXCEPT ![r] = Append(@, doc)]
  /\ sent' = [sent EXCEPT ![r] = Append(@, Mail(body[r]))]
  /\ pc' = [pc EXCEPT ![r] = "mailing"]
  /\ UNCHANGED <<inputs, body, res, logged>>

\* lines 127-136: sendMail resolves
MailOk(r) ==
  /\ pc[r] = "mailing"
  /\ Respond(r, CreatedResponse(newApplication[r][1]))
  /\ UNCHANGED <<inputs, body, newApplication, sent, logged, store, nextId>>

\* a mailer error that reaches the outer catch
MailFailSurfaced(r) ==
  /\ pc[r] = "mailing"
  /\ \E emailError \in MailErrors :
       /\ logged' = [logged EXCEPT ![r] = Append(@, emailError)]
       /\ Respond(r, ErrorResponse(emailError))
  /\ UNCHANGED <<inputs, body, newApplication, sent, store, nextId>>

\* a mailer error after which the send is tried again
MailFailRetry(r) ==
  /\ pc[r] = "mailing"
  /\ \E emailError \in MailErrors :
       logged' = [logged EXCEPT ![r] = Append(@, emailError)]
  /\ IF Len(sent[r]) < 2
       THEN /\ sent' = [sent EXCEPT ![r] = Append(@, Mail(body[r]))]
            /\ UNCHANGED <<pc, res>>
       ELSE /\ Respond(r, CreatedResponse(newApplication[r][1]))
            /\ UNCHANGED sent
  /\ UNCHANGED <<inputs, body, newApplication, store, nextId>>

\* lines 128-136: sendMail rejects; the error is logged and the 201 is sent
MailFail(r) ==
  /\ pc[r] = "mailing"
  /\ \E emailError \in MailErrors :
       logged' = [logged EXCEPT ![r] = Append(@, emailError)]
  /\ Respond(r, CreatedResponse(newApplication[r][1]))
  /\ UNCHANGED <<inputs, body, newApplication, sent, store, nextId>>

\* line 115: the promise of sendMail never settles; the handler stays
\* suspended at its await
MailHang(r) ==
  /\ pc[r] = "mailing"
  /\ pc' = [pc EXCEPT ![r] = "hung"]
  /\ UNCHANGED <<inputs, body, newApplication, res, sent, logged, store, nextId>>

Next ==
  \E r \in Requests :
     \/ Receive(r)
     \/ CreateInvalid(r)
     \/ CreateFail(r)
     \/ CreateOk(r)
     \/ MailOk(r)
     \/ MailFail(r)
     \/ MailHang(r)

Spec == Init /\ [][Next]_vars

SpecInputs == InitInputs /\ [][Next]_vars

\* a pending promise of Application.create or of transporter.sendMail is
\* eventually dealt with: it resolves, rejects, or (the mail) is known never
\* to settle; the event loop then runs the handler's continuation
FairSpec ==
  /\ Init
  /\ [][Next]_vars
  /\ \A r \in Requests :
        /\ WF_vars(CreateInvalid(r) \/ CreateFail(r) \/ CreateOk(r))
        /\ WF_vars(MailOk(r) \/ MailFail(r) \/ MailHang(r))

\* ---------------------------------------------------------- properties
Statuses(r) == {res[r][i].status : i \in 1..Len(res[r])}

Lacking(b) == {k \in RequiredSet : k \notin DOMAIN b \/ b[k] = <<>>}

Started(r) == pc[r] # "idle"

Complete(r) == Started(r) /\ Lacking(body[r]) = {}

Occurs(x, seq) == \E i \in 1..Len(seq) : seq[i] = x

\* C1: a request whose payload lacks (absent or empty) at least one of
\* email, firstName, lastName, country is answered with exactly a 400 whose
\* success is false and whose error text names every lacking field; it
\* creates no record and sends no mail.
MissingFieldsRejected ==
  \A r \in Requests :
     (Started(r) /\ Lacking(body[r]) # {}) =>
        /\ pc[r] = "done"
        /\ Len(res[r]) = 1
        /\ res[r][1].status = 400
        /\ res[r][1].success = FALSE
        /\ \A k \in Lacking(body[r]) : Occurs(k, res[r][1].error)
        /\ newApplication[r] = <<>>
        /\ sent[r] = <<>>
        /\ \A rec \in store : \E q \in Requests \ {r} : Occurs(rec, newApplication[q])

\* two or more fields are lacking, one of them not the first of the list
MissingFieldsWitness ==
  \E r \in Requests :
     /\ pc[r] = "done"
     /\ Cardinality(Lacking(body[r])) >= 2
     /\ "email" \notin Lacking(body[r])
     /\ "country" \notin DOMAIN body[r]
     /\ res[r][1].status = 400

HasAt(s) == \E i \in 1..Len(s) : s[i] = "@"

DotAfterAt(s) == \E i \in 1..Len(s) : \E j \in (i+1)..Len(s) : s[i] = "@" /\ s[j] = "."

\* C2: a request whose four required fields are present and whose email
\* has no '@', or has no dot after an '@', is never answered with anything
\* but a 400, is answered with one when its handler ends, and creates no
\* record.
MalformedEmailRejected ==
  \A r \in Requests :
     (Complete(r) /\ (~HasAt(body[r].email) \/ ~DotAfterAt(body[r].email))) =>
        /\ Statuses(r) \subseteq {400}
        /\ pc[r] \in {"creating", "done"}
        /\ pc[r] = "done" => Len(res[r]) = 1
        /\ newApplication[r] = <<>>
        /\ \A rec \in store : rec.email # body[r].email

\* an email with an '@' but no dot behind it has been turned down by the store
MalformedEmailWitness ==
  \E r \in Requests :
     /\ pc[r] = "done"
     /\ Complete(r)
     /\ HasAt(body[r].email)
     /\ ~DotAfterAt(body[r].email)
     /\ Len(body[r].email) >= 3
     /\ res[r][1].status = 400
     /\ Occurs("email: Invalid email format", res[r][1].error)

\* s without its leading and trailing whitespace
Stripped(s, t) ==
  \E i \in 1..(Len(s)+1) : \E j \in 0..Len(s) :
     /\ t = SubSeq(s, i, j)
     /\ \A k \in 1..(i-1) : IsSpace(s[k])
     /\ \A k \in (j+1)..Len(s) : IsSpace(s[k])
     /\ t # <<>> => ~IsSpace(t[1]) /\ ~IsSpace(t[Len(t)])

\* C3: the data of a 201 holds the submitted required fields (the names
\* without their surrounding whitespace) and, under searchFilters, every
\* payload field that is not a required one, whatever its name, with its
\* submitted value.
AllExtrasStored ==
  \A r \in Requests :
     \A i \in 1..Len(res[r]) :
        res[r][i].status = 201 =>
           /\ res[r][i].data.email = body[r].email
           /\ Stripped(body[r].firstName, res[r][i].data.firstName)
           /\ Stripped(body[r].lastName, res[r][i].data.lastName)
           /\ res[r][i].data.country = body[r].country
           /\ res[r][i].data \in store
           /\ DOMAIN res[r][i].data.searchFilters = (DOMAIN body[r]) \ RequiredSet
           /\ \A k \in (DOMAIN body[r]) \ RequiredSet :
                 res[r][i].data.searchFilters[k] = body[r][k]

MailFailed(r) == \E i \in 1..Len(logged[r]) : logged[r][i] \in MailErrors

\* C4: when the record was persisted and the send of the mail failed, the
\* request is answered with one 201 whose success is true and whose data is
\* the created record, the record is in the store, and the response holds
\* neither an error field nor the mailer's message.
MailFailureStillCreated ==
  \A r \in Requests :
     MailFailed(r) =>
        /\ Len(newApplication[r]) = 1
        /\ newApplication[r][1] \in store
        /\ Len(res[r]) = 1
        /\ res[r][1].status = 201
        /\ res[r][1].success = TRUE
        /\ res[r][1].data = newApplication[r][1]
        /\ "error" \notin DOMAIN res[r][1]
        /\ \A e \in MailErrors : res[r][1].message # e.message

MailFailureWitness ==
  \E r \in Requests :
     /\ MailFailed(r)
     /\ pc[r] = "done"
     /\ sent[r] # <<>>

StoreFailed(r) == \E i \in 1..Len(logged[r]) : logged[r][i] \in StoreErrors

\* C5: when create fails with an error that is not a validation error the
\* response is a 500 whose success is false and whose error text is not
\* the text of the underlying error, and no mail is sent; a validation
\* error gives a 400 with the store's validation message.
StoreFailureGeneric ==
  \A r \in Requests :
     /\ StoreFailed(r) =>
           /\ Len(res[r]) = 1
           /\ res[r][1].status = 500
           /\ res[r][1].success = FALSE
           /\ \A i \in 1..Len(logged[r]) :
                 logged[r][i].message # <<>> => res[r][1].error # logged[r][i].message
           /\ sent[r] = <<>>
     /\ (\E i \in 1..Len(logged[r]) : logged[r][i].name = "ValidationError") =>
           /\ Len(res[r]) = 1
           /\ res[r][1].status = 400
           /\ res[r][1].error = logged[r][1].message

\* C6: once the record of a request has been persisted its 201 is
\* eventually sent, whether the send of the mail succeeds, fails or never
\* completes.
ResponseNotBlockedByMail ==
  \A r \in Requests :
     (newApplication[r] # <<>>) ~> (res[r] # <<>> /\ res[r][1].status = 201)

Describes(mail, doc, b) ==
  /\ mail.email = doc.email
  /\ mail.country = doc.country
  /\ mail.firstName = b.firstName
  /\ mail.lastName = b.lastName
  /\ Stripped(mail.firstName, doc.firstName)
  /\ Stripped(mail.lastName, doc.lastName)

\* C7: a request writes at most one record and attempts at most one mail;
\* a mail is attempted only once the request's record has been created and
\* is in the store, and it describes that record; a request answered with
\* a 400 or a 500 has sent no mail.
OneWriteOneMail ==
  \A r \in Requests :
     /\ Len(newApplication[r]) <= 1
     /\ Len(sent[r]) <= 1
     /\ sent[r] # <<>> =>
           /\ newApplication[r] # <<>>
           /\ newApplication[r][1] \in store
           /\ Describes(sent[r][1], newApplication[r][1], body[r])
     /\ Statuses(r) \cap {400, 500} # {} => sent[r] = <<>>

\* one request failed in the store without a mail, another sent its mail
\* and the mailer rejected it
OneWriteOneMailWitness ==
  \E r, q \in Requests :
     /\ pc[r] = "done" /\ 500 \in Statuses(r)
     /\ pc[q] = "done" /\ MailFailed(q) /\ Len(sent[q]) = 1

RECURSIVE Writes(_)
Writes(R) ==
  IF R = {} THEN 0
  ELSE LET r == CHOOSE x \in R : TRUE
       IN  Len(newApplication[r]) + Writes(R \ {r})

NoDedup ==
  /\ Cardinality(store) = Writes(Requests)
  /\ \A a, b \in store : a._id = b._id => a = b
  /\ \A r, q \in Requests :
        (r # q /\ newApplication[r] # <<>> /\ newApplication[q] # <<>>) =>
           /\ newApplication[r][1] # newApplication[q][1]
           /\ newApplication[r][1]._id # newApplication[q][1]._id
           /\ {newApplication[r][1], newApplication[q][1]} \subseteq store
  /\ \A r \in Requests :
        \A i \in 1..Len(res[r]) : res[r][i].status = 201 => res[r][i].data \in store

\* C8: submissions are not deduplicated: the store holds one record per
\* successful create, the records of two requests are distinct and have
\* distinct ids even when their payloads are the same, and no step changes
\* or removes a record that was created.
RecordsOnlyAdded == [](NoDedup) /\ [][store \subseteq store']_vars

\* two requests with the same payload have both been answered with a 201
SamePayloadTwiceWitness ==
  \E r, q \in Requests :
     /\ r # q
     /\ body[r] = body[q]
     /\ pc[r] = "done" /\ 201 \in Statuses(r)
     /\ pc[q] = "done" /\ 201 \in Statuses(q)

WhitespaceOnly(s) == s # <<>> /\ \A i \in 1..Len(s) : IsSpace(s[i])

\* C9: every record of the store has a firstName and a lastName that are
\* non-empty and are the submitted values without their surrounding
\* whitespace; a request whose firstName or lastName is only whitespace
\* creates no record and is answered with nothing but a 400.
NamesTrimmed ==
  /\ \A rec \in store :
        /\ rec.firstName # <<>>
        /\ rec.lastName # <<>>
        /\ Stripped(rec.firstName, rec.firstName)
        /\ Stripped(rec.lastName, rec.lastName)
  /\ \A r \in Requests :
        /\ newApplication[r] # <<>> =>
              /\ Stripped(body[r].firstName, newApplication[r][1].firstName)
              /\ Stripped(body[r].lastName, newApplication[r][1].lastName)
        /\ (Complete(r) /\ (WhitespaceOnly(body[r].firstName)
                              \/ WhitespaceOnly(body[r].lastName))) =>
              /\ newApplication[r] = <<>>
              /\ Statuses(r) \subseteq {400}
              /\ pc[r] \in {"creating", "done"}
              /\ pc[r] = "done" => Len(res[r]) = 1

\* a name with whitespace on both sides has been stored without it
NamesTrimmedWitness ==
  \E r \in Requests :
     /\ newApplication[r] # <<>>
     /\ Len(body[r].firstName) = 3
     /\ IsSpace(body[r].firstName[1])
     /\ IsSpace(body[r].firstName[3])
     /\ newApplication[r][1].firstName = <<body[r].firstName[2]>>
     /\ newApplication[r][1] \in store

\* a name of whitespace only has been turned down
WhitespaceNameWitness ==
  \E r \in Requests :
     /\ pc[r] = "done"
     /\ Complete(r)
     /\ WhitespaceOnly(body[r].lastName)
     /\ res[r][1].status = 400

\* C10: a handler sends at most one response, exactly one when it has
\* ended, and the status sent is 201 exactly when the request's record was
\* created.
ExactlyOneResponse ==
  \A r \in Requests :
     /\ Len(res[r]) <= 1
     /\ pc[r] = "done" <=> Len(res[r]) = 1
     /\ res[r] # <<>> => (res[r][1].status = 201 <=> newApplication[r] # <<>>)
     /\ Statuses(r) \subseteq {201, 400, 500}

\* every way the handler ends has been taken by some request
ExactlyOneResponseWitness ==
  \E r, q \in Requests :
     /\ pc[r] = "done" /\ res[r][1].status = 201
     /\ pc[q] = "done" /\ res[q][1].status = 400 /\ Lacking(body[q]) # {}

====
